---- MODULE Spec2Model ----
(***************************************************************************)
(* CurvePoint (src/src/CurvePoint.ts, class CurvePoint, lines 6-546):      *)
(* one message encrypted once under a random symmetric key, the key        *)
(* wrapped for every recipient by the wallet, and a length-prefixed        *)
(* binary header listing recipients and administrators.                    *)
(*                                                                         *)
(* Byte arrays (number[]) are sequences of 0..255.  Hexadecimal strings    *)
(* are sequences of ASCII codes.  Offsets are 0-based as in the source.    *)
(***************************************************************************)
EXTENDS Integers, Sequences, FiniteSets, TLC

\* ------------------------------------------------------------------ bounds
\* The code treats every identity, every (protocolID, keyID) pair and every
\* random key alike, so the wallet that creates the envelope, the context it
\* encrypts under and the key it draws are fixed; recipients, administrators,
\* callers and the contexts of later calls range over all of them.
NumIds == 3             \* wallets (identities) taking part: 1..NumIds
NumContexts == 2        \* (protocolID, keyID) pairs: 1..NumContexts
MaxRecipients == 2      \* longest recipients list handed to encrypt
MaxAdministrators == 1  \* longest administrators list handed to encrypt
MaxVersion == 3         \* mutations stop once the header reaches this version
Creator == 1            \* the wallet that calls encrypt
SentContext == 1        \* the context encrypt is called with
FreshKey == 1           \* the key SymmetricKey.fromRandom() returns
NumUpper == 1           \* identities whose key also occurs written in capitals

Ids == 1..NumIds
Contexts == 1..NumContexts

\* ------------------------------------------------------- program constants
KeyBytes == 33       \* reader.read(33): a compressed public key
KeyHexLen == 66      \* key.length === 66
Undef == -1          \* JavaScript undefined (a read past the end)
BigNum == 1000000    \* stands for every number larger than any buffer used

Min(a, b) == IF a < b THEN a ELSE b
Max(a, b) == IF a < b THEN b ELSE a

\* ------------------------------------------------------------ hex strings
\* Buffer.from(bytes).toString('hex'): two lowercase digits per byte.
HexDigit(n) == IF n < 10 THEN 48 + n ELSE 87 + n

HexOfByte == [b \in 0..255 |-> <<HexDigit(b \div 16), HexDigit(b % 16)>>]

ToHex(bytes) ==
  [k \in 1..(2 * Len(bytes)) |-> HexOfByte[bytes[(k + 1) \div 2]][2 - (k % 2)]]

\* /^[0-9a-fA-F]+$/ on one character
IsHexChar(c) == (c >= 48 /\ c <= 57) \/ (c >= 97 /\ c <= 102) \/ (c >= 65 /\ c <= 70)

HexVal(c) == IF c <= 57 THEN c - 48 ELSE IF c >= 97 THEN c - 87 ELSE c - 55

\* Buffer.from(str, 'hex'): whole pairs of hex digits up to the first
\* pair that is not hexadecimal.
HexPairs(str) ==
  LET bad == {k \in 1..(Len(str) \div 2) : ~IsHexChar(str[2 * k - 1]) \/ ~IsHexChar(str[2 * k])}
  IN IF bad = {} THEN Len(str) \div 2
     ELSE (CHOOSE k \in bad : \A j \in bad : k <= j) - 1

FromHex(str) ==
  [k \in 1..HexPairs(str) |-> 16 * HexVal(str[2 * k - 1]) + HexVal(str[2 * k])]

\* buildHeader's helper validatePublicKey
validatePublicKey(key) ==
  Len(key) = KeyHexLen /\ \A k \in 1..Len(key) : IsHexChar(key[k])

\* -------------------------------------------------------------- identities
\* The 33 bytes of wallet i's identity key and the string getPublicKey returns.
PubKeyBytes(i) == [k \in 1..KeyBytes |-> IF k = 1 THEN 2 ELSE 160 + i]

IdentityKeys == [i \in Ids |-> ToHex(PubKeyBytes(i))]

PubKeyHex(i) == IdentityKeys[i]

\* wallet.getPublicKey({ identityKey: true }) of wallet i
getPublicKey(i) == PubKeyHex(i)

\* The wallet that owns a key string, 0 when the string is no known key
\* (PublicKey.fromString reads either case of the hex digits).
WalletOf(hex) ==
  IF \E i \in Ids : hex = IdentityKeys[i] THEN CHOOSE i \in Ids : hex = IdentityKeys[i]
  ELSE IF Len(hex) # KeyHexLen THEN 0
  ELSE LET bytes == FromHex(hex)
       IN IF \E i \in Ids : bytes = PubKeyBytes(i)
          THEN CHOOSE i \in Ids : bytes = PubKeyBytes(i)
          ELSE 0

\* ---------------------------------------------------------- Utils.Writer
writeUInt32LE(word) == word      \* the four bytes, least significant first

\* currentVersion + 1 as writeUInt32LE stores it (the low 32 bits)
RECURSIVE IncBytes(_, _)
IncBytes(word, k) ==
  IF k > Len(word) THEN word
  ELSE IF word[k] < 255 THEN [word EXCEPT ![k] = word[k] + 1]
  ELSE IncBytes([word EXCEPT ![k] = 0], k + 1)

\* (mutant) the version written as it was read
Inc32Forgotten(word) == word

Inc32(word) == IncBytes(word, 1)

ZeroWord == <<0, 0, 0, 0>>

writeVarIntNum(n) ==
  IF n < 253 THEN <<n>>
  ELSE IF n < 65536 THEN <<253, n % 256, n \div 256>>
  ELSE <<254, n % 256, (n \div 256) % 256, (n \div 65536) % 256, n \div 16777216>>

\* ---------------------------------------------------------- Utils.Reader
\* A reader is (bin, pos); every read returns [val, pos].
Slice(bin, start, end) ==
  LET e == Min(end, Len(bin))
  IN IF start >= e THEN <<>> ELSE SubSeq(bin, start + 1, e)

ByteOr0(bin, pos) == IF pos < Len(bin) THEN bin[pos + 1] ELSE 0

readUInt8(bin, pos) ==
  [val |-> IF pos < Len(bin) THEN bin[pos + 1] ELSE Undef, pos |-> pos + 1]

\* read(len = this.bin.length)
read(bin, pos, len) ==
  LET n == IF len = Undef THEN Len(bin) ELSE len
  IN [val |-> Slice(bin, pos, pos + n), pos |-> pos + n]

\* the version field: its four bytes, absent bytes reading as 0
readUInt32LE(bin, pos) ==
  [val |-> [k \in 1..4 |-> ByteOr0(bin, pos + k - 1)], pos |-> pos + 4]

\* A number of at most 32 bits, numbers above BigNum reading as BigNum.
CappedNum(bytes) ==
  IF \E k \in 4..Len(bytes) : bytes[k] # 0 THEN BigNum
  ELSE Min(BigNum, bytes[1] + 256 * bytes[2] + 65536 * bytes[3])

\* readVarIntNum: [val, pos, threw]
readVarIntNum(bin, pos) ==
  LET first == readUInt8(bin, pos)
      p == first.pos
  IN CASE first.val = 253 ->
            [val |-> ByteOr0(bin, p) + 256 * ByteOr0(bin, p + 1), pos |-> p + 2, threw |-> FALSE]
       [] first.val = 254 ->
            [val |-> CappedNum([k \in 1..4 |-> ByteOr0(bin, p + k - 1)]), pos |-> p + 4, threw |-> FALSE]
       [] first.val = 255 ->
            \* 'number too large to retain precision' above 2^53
            [val |-> CappedNum([k \in 1..8 |-> ByteOr0(bin, p + k - 1)]), pos |-> p + 8,
             threw |-> ByteOr0(bin, p + 7) # 0 \/ ByteOr0(bin, p + 6) > 32
                       \/ (ByteOr0(bin, p + 6) = 32 /\ \E k \in 0..5 : ByteOr0(bin, p + k) # 0)]
       [] OTHER -> [val |-> first.val, pos |-> p, threw |-> FALSE]

\* ------------------------------------------------------------------ results
\* What a call hands back: a value, or the message of the Error it throws.
Ok(v) == [ok |-> TRUE, val |-> v, err |-> ""]
Throw(msg) == [ok |-> FALSE, val |-> <<>>, err |-> msg]

RECURSIVE SumBytes(_, _)
SumBytes(bytes, k) == IF k > Len(bytes) THEN 0 ELSE bytes[k] + SumBytes(bytes, k + 1)

\* The authentication tag of an authenticated ciphertext: any change of one
\* byte of the ciphertext makes the tag wrong.
Tag(bytes) == (SumBytes(bytes, 1) + 1) % 256

\* (mutant) a body accepted whatever its tag
SealedUnverified(bytes) == Len(bytes) >= 1

Sealed(bytes) == Len(bytes) >= 1 /\ bytes[Len(bytes)] = Tag(SubSeq(bytes, 1, Len(bytes) - 1))

\* ------------------------------------------------------------- SymmetricKey
\* (mutant) SymmetricKey.fromRandom() returning one and the same key
toArrayOfOneKey(k) == <<1>>

\* symmetricKey.toArray() of the key numbered k
toArray(k) == <<k>>

\* symmetricKey.encrypt(message): the body names its key, carries the
\* message and ends with the tag.
SymEncrypt(keyBytes, message) == LET c == keyBytes \o message IN Append(c, Tag(c))

\* new SymmetricKey(keyBytes).decrypt(body); throws 'Decryption failed!'
SymDecrypt(keyBytes, body) ==
  IF Len(keyBytes) >= 1 /\ Len(body) > Len(keyBytes) /\ Sealed(body)
     /\ SubSeq(body, 1, Len(keyBytes)) = keyBytes
  THEN Ok(SubSeq(body, Len(keyBytes) + 1, Len(body) - 1))
  ELSE Throw("Decryption failed!")

\* ------------------------------------------------------------------- wallet
\* The key two wallets derive for each other under one (protocolID, keyID):
\* the same whichever of the two derives it.
DerivedKeyAnyContext(i, j, ctx) == <<Min(i, j), Max(i, j), 0>>     \* (mutant)

DerivedKey(i, j, ctx) == <<Min(i, j), Max(i, j), ctx>>

\* wallet.encrypt({protocolID, keyID, counterparty, plaintext}) by wallet i
WalletEncrypt(i, ctx, counterparty, plaintext) ==
  IF WalletOf(counterparty) = 0 THEN Throw("Invalid counterparty")
  ELSE Ok(SymEncrypt(DerivedKey(i, WalletOf(counterparty), ctx), plaintext))

\* wallet.decrypt({protocolID, keyID, counterparty, ciphertext}) by wallet i
WalletDecrypt(i, ctx, counterparty, ciphertext) ==
  IF WalletOf(counterparty) = 0 THEN Throw("Invalid counterparty")
  ELSE SymDecrypt(DerivedKey(i, WalletOf(counterparty), ctx), ciphertext)

\* ------------------------------------------------------------- buildHeader
\* recipients.forEach at lines 182-196: the indices that are kept
keptIndices(recipients, encryptedKeys) ==
  LET F[i \in 0..Len(recipients)] ==
        IF i = 0 THEN <<>>
        ELSE IF validatePublicKey(recipients[i])
                /\ i <= Len(encryptedKeys) /\ Len(encryptedKeys[i]) # 0
             THEN Append(F[i - 1], i)
             ELSE F[i - 1]
  IN F[Len(recipients)]

\* (mutant) the two keys of an entry written in the opposite order
writeEntrySenderFirst(recipient, senderPublicKey, encryptedKey) ==
  FromHex(senderPublicKey) \o FromHex(recipient)
    \o writeVarIntNum(Len(encryptedKey)) \o encryptedKey

\* one recipient entry, lines 206-222
writeEntry(recipient, senderPublicKey, encryptedKey) ==
  FromHex(recipient) \o FromHex(senderPublicKey)
    \o writeVarIntNum(Len(encryptedKey)) \o encryptedKey

RECURSIVE ConcatAll(_, _)
ConcatAll(seqs, k) == IF k > Len(seqs) THEN <<>> ELSE seqs[k] \o ConcatAll(seqs, k + 1)

\* (mutant) buildHeader without the check of lines 198-200
buildHeaderUnchecked(senderPublicKey, recipients, encryptedKeys, administrators, currentVersion) ==
  LET kept == keptIndices(recipients, encryptedKeys)
      entries == [k \in 1..Len(kept) |->
                    writeEntry(recipients[kept[k]], senderPublicKey, encryptedKeys[kept[k]])]
      admins == [k \in 1..Len(administrators) |-> FromHex(administrators[k])]
      headerContent == writeUInt32LE(Inc32(currentVersion)) \o writeVarIntNum(Len(kept))
                         \o ConcatAll(entries, 1)
                         \o writeVarIntNum(Len(administrators)) \o ConcatAll(admins, 1)
  IN IF ~validatePublicKey(senderPublicKey) THEN Throw("Invalid sender public key")
     ELSE IF Len(administrators) = 0 THEN Throw("Administrators list cannot be empty.")
     ELSE Ok(writeVarIntNum(Len(headerContent)) \o headerContent)

\* currentVersion is the four bytes of the version that was read
buildHeader(senderPublicKey, recipients, encryptedKeys, administrators, currentVersion) ==
  LET kept == keptIndices(recipients, encryptedKeys)
      newVersion == Inc32(currentVersion)
      entries == [k \in 1..Len(kept) |->
                    writeEntry(recipients[kept[k]], senderPublicKey, encryptedKeys[kept[k]])]
      admins == [k \in 1..Len(administrators) |-> FromHex(administrators[k])]
      headerContent == writeUInt32LE(newVersion) \o writeVarIntNum(Len(kept))
                         \o ConcatAll(entries, 1)
                         \o writeVarIntNum(Len(administrators)) \o ConcatAll(admins, 1)
  IN IF ~validatePublicKey(senderPublicKey) THEN Throw("Invalid sender public key")
     ELSE IF Len(kept) = 0 THEN Throw("No valid recipients found to build the header.")
     ELSE IF Len(administrators) = 0 THEN Throw("Administrators list cannot be empty.")
     ELSE IF \E k \in 1..Len(administrators) : ~validatePublicKey(administrators[k])
          THEN Throw("Invalid administrator public key at index")
     ELSE Ok(writeVarIntNum(Len(headerContent)) \o headerContent)

\* ------------------------------------------------------------- parseHeader
\* The recipient loop of parseHeader, lines 290-319: where the reader stands
\* after it, and whether a read threw.  Once the reader is at the end every
\* further read is short and is skipped by `continue`.
RECURSIVE parseRecipients(_, _, _, _)
parseRecipients(header, pos, i, n) ==
  IF i >= n THEN [pos |-> pos, threw |-> FALSE]
  ELSE IF pos >= Len(header) THEN [pos |-> pos + KeyBytes * (n - i), threw |-> FALSE]
  ELSE LET rk == read(header, pos, KeyBytes)
           sk == read(header, rk.pos, KeyBytes)
           kl == readVarIntNum(header, sk.pos)
           ek == read(header, kl.pos, kl.val)
       IN IF Len(rk.val) # KeyBytes THEN parseRecipients(header, rk.pos, i + 1, n)
          ELSE IF Len(sk.val) # KeyBytes THEN parseRecipients(header, sk.pos, i + 1, n)
          ELSE IF kl.threw THEN [pos |-> kl.pos, threw |-> TRUE]
          ELSE parseRecipients(header, ek.pos, i + 1, n)

\* The administrator loop, lines 329-338: the keys read in full, as hex.
RECURSIVE parseAdministrators(_, _, _, _, _)
parseAdministrators(header, pos, i, n, acc) ==
  IF i >= n \/ pos >= Len(header) THEN acc
  ELSE LET ak == read(header, pos, KeyBytes)
       IN parseAdministrators(header, ak.pos, i + 1, n,
            IF Len(ak.val) = KeyBytes THEN Append(acc, ToHex(ak.val)) ELSE acc)

ParseFailed == [ok |-> FALSE, err |-> "Failed to parse header or message.",
                header |-> <<>>, message |-> <<>>, administrators |-> <<>>]

\* Lines 321-342, tempReader standing at pos after the recipient entries.
parseAfterRecipients(ciphertext, h, pos) ==
  LET na == readVarIntNum(h.val, pos)
  IN IF na.threw THEN ParseFailed
     ELSE IF na.val # Undef /\ na.val < 1 THEN ParseFailed
     ELSE [ok |-> TRUE, err |-> "", header |-> h.val,
           message |-> Slice(ciphertext, h.pos, Len(ciphertext)),
           administrators |-> parseAdministrators(h.val, na.pos, 0, na.val, <<>>)]

\* Lines 269-342: h is what reader.read(headerLength) returned.
parseContent(ciphertext, h) ==
  LET ver == readUInt32LE(h.val, 0)
      nr == readVarIntNum(h.val, ver.pos)
      rec == parseRecipients(h.val, nr.pos, 0, nr.val)
  IN IF ver.val = ZeroWord THEN ParseFailed
     ELSE IF nr.threw \/ (nr.val # Undef /\ nr.val <= 0) THEN ParseFailed
     ELSE IF rec.threw THEN ParseFailed
     ELSE parseAfterRecipients(ciphertext, h, rec.pos)

\* The recipients array of parseHeader, lines 288-319: how many entries the
\* loop read in full and pushed.
RECURSIVE parsedRecipients(_, _, _, _)
parsedRecipients(header, pos, i, n) ==
  IF i >= n \/ pos >= Len(header) THEN 0
  ELSE LET rk == read(header, pos, KeyBytes)
           sk == read(header, rk.pos, KeyBytes)
           kl == readVarIntNum(header, sk.pos)
           ek == read(header, kl.pos, kl.val)
       IN IF Len(rk.val) # KeyBytes THEN parsedRecipients(header, rk.pos, i + 1, n)
          ELSE IF Len(sk.val) # KeyBytes THEN parsedRecipients(header, sk.pos, i + 1, n)
          ELSE IF kl.threw THEN 0
          ELSE IF Len(ek.val) # kl.val THEN parsedRecipients(header, ek.pos, i + 1, n)
          ELSE 1 + parsedRecipients(header, ek.pos, i + 1, n)

\* (mutant) parseHeader without the check of lines 265-267
parseHeaderUnbounded(ciphertext) ==
  LET hl == readVarIntNum(ciphertext, 0)
  IN IF hl.threw THEN ParseFailed
     ELSE parseContent(ciphertext, read(ciphertext, hl.pos, hl.val))

parseHeader(ciphertext) ==
  LET hl == readVarIntNum(ciphertext, 0)
  IN IF hl.threw THEN ParseFailed
     ELSE IF hl.val # Undef /\ hl.val > Len(ciphertext) - hl.pos THEN ParseFailed
     ELSE parseContent(ciphertext, read(ciphertext, hl.pos, hl.val))

\* ------------------------------------------------------------------ decrypt
\* (mutant) the loop of decrypt trying every entry, with the entry's recipient
\* as counterparty
RECURSIVE findSymmetricKeyAnyEntry(_, _, _, _, _, _)
findSymmetricKeyAnyEntry(header, pos, idx, n, i, ctx) ==
  IF idx >= n \/ pos >= Len(header) THEN [found |-> FALSE, key |-> <<>>]
  ELSE LET rk == read(header, pos, KeyBytes)
           sk == read(header, rk.pos, KeyBytes)
           kl == readVarIntNum(header, sk.pos)
           ek == read(header, kl.pos, kl.val)
           d == WalletDecrypt(i, ctx, ToHex(rk.val), ek.val)
       IN IF d.ok THEN [found |-> TRUE, key |-> d.val]
          ELSE findSymmetricKeyAnyEntry(header, ek.pos, idx + 1, n, i, ctx)

\* The loop of decrypt, lines 98-138, run by wallet i: the bytes of the
\* symmetric key of the first entry for i that the wallet can unwrap.
NoKey == [found |-> FALSE, key |-> <<>>]

RECURSIVE findSymmetricKey(_, _, _, _, _, _)
findSymmetricKey(header, pos, idx, n, i, ctx) ==
  IF idx >= n \/ pos >= Len(header) THEN NoKey
  ELSE LET rk == read(header, pos, KeyBytes)
           sk == read(header, rk.pos, KeyBytes)
           kl == readVarIntNum(header, sk.pos)
           ek == read(header, kl.pos, kl.val)
           d == WalletDecrypt(i, ctx, ToHex(sk.val), ek.val)
       IN IF kl.threw THEN findSymmetricKey(header, kl.pos, idx + 1, n, i, ctx)
          ELSE IF ToHex(rk.val) = getPublicKey(i) /\ d.ok
               THEN [found |-> TRUE, key |-> d.val]
          ELSE findSymmetricKey(header, ek.pos, idx + 1, n, i, ctx)

\* Lines 141-148: symmetricKey is what the loop left.
decryptMessage(symmetricKey, message) ==
  LET m == SymDecrypt(symmetricKey.key, message)
  IN IF ~symmetricKey.found
     THEN Throw("Decryption failed: Your key is not found in the header.")
     ELSE IF ~m.ok THEN Throw("Decryption failed: Decryption failed!")
     ELSE Ok(m.val)

\* Lines 79-148: p is what parseHeader returned.
decryptParsed(p, i, ctx) ==
  LET ver == readUInt32LE(p.header, 0)
      nr == readVarIntNum(p.header, ver.pos)
  IN IF ~p.ok THEN Throw("Decryption failed: Failed to parse header or message.")
     ELSE decryptMessage(findSymmetricKey(p.header, nr.pos, 0, nr.val, i, ctx), p.message)

decrypt(ciphertext, i, ctx) == decryptParsed(parseHeader(ciphertext), i, ctx)

\* ----------------------------------------------------------- addParticipant
\* The loop of addParticipant, lines 378-423, run by wallet i.  st holds
\* recipients, encryptedKeys, senderPublicKey (<<>> for null) and symmetricKey.
RECURSIVE addLoop(_, _, _, _, _, _, _)
addLoop(header, pos, idx, n, i, ctx, st) ==
  IF idx >= n \/ pos >= Len(header) THEN st
  ELSE LET rk == read(header, pos, KeyBytes)
           sk == read(header, rk.pos, KeyBytes)
           sender == [st EXCEPT !.senderPublicKey = ToHex(sk.val)]
           kl == readVarIntNum(header, sk.pos)
           ek == read(header, kl.pos, kl.val)
           pushed == [sender EXCEPT !.recipients = Append(@, ToHex(rk.val)),
                                    !.encryptedKeys = Append(@, ek.val)]
           d == WalletDecrypt(i, ctx, ToHex(sk.val), ek.val)
       IN IF Len(rk.val) # KeyBytes THEN addLoop(header, rk.pos, idx + 1, n, i, ctx, st)
          ELSE IF Len(sk.val) # KeyBytes THEN addLoop(header, sk.pos, idx + 1, n, i, ctx, st)
          ELSE IF kl.threw THEN addLoop(header, kl.pos, idx + 1, n, i, ctx, sender)
          ELSE IF Len(ek.val) # kl.val THEN addLoop(header, ek.pos, idx + 1, n, i, ctx, sender)
          ELSE IF ~st.symmetricKey.found /\ d.ok
               THEN addLoop(header, ek.pos, idx + 1, n, i, ctx,
                            [pushed EXCEPT !.symmetricKey = [found |-> TRUE, key |-> d.val]])
          ELSE addLoop(header, ek.pos, idx + 1, n, i, ctx, pushed)

EmptyLoopState ==
  [recipients |-> <<>>, encryptedKeys |-> <<>>, senderPublicKey |-> <<>>, symmetricKey |-> NoKey]

Contains(seq, x) == \E k \in 1..Len(seq) : seq[k] = x

AddFailed(cause) ==
  [ok |-> FALSE, val |-> <<>>, err |-> "Failed to add new participant to the header.",
   cause |-> cause]

\* Lines 441-447: the new key appended and the header rebuilt.
addEntry(st, newParticipant, newEncryptedKey, administrators, version) ==
  LET updatedHeader == buildHeader(st.senderPublicKey,
                                   Append(st.recipients, newParticipant),
                                   Append(st.encryptedKeys, newEncryptedKey.val),
                                   administrators, version)
  IN IF ~newEncryptedKey.ok THEN AddFailed(newEncryptedKey.err)
     ELSE IF ~updatedHeader.ok THEN AddFailed(updatedHeader.err)
     ELSE [ok |-> TRUE, val |-> updatedHeader.val, err |-> "", cause |-> ""]

\* Lines 425-447: st is what the loop left.
addChecked(st, i, ctx, newParticipant, administrators, version) ==
  IF st.senderPublicKey = <<>>
  THEN AddFailed("Sender public key not found in the header.")
  ELSE IF Contains(st.recipients, newParticipant)
       THEN AddFailed("Participant already exists in the header.")
  ELSE IF ~st.symmetricKey.found THEN AddFailed("Symmetric key not found in the header.")
  ELSE addEntry(st, newParticipant,
                WalletEncrypt(i, ctx, newParticipant, st.symmetricKey.key),
                administrators, version)

\* Lines 357-447: p is what parseHeader returned.
addParsed(p, i, ctx, newParticipant) ==
  LET ver == readUInt32LE(p.header, 0)
      nr == readVarIntNum(p.header, ver.pos)
  IN IF ~p.ok THEN AddFailed(p.err)
     ELSE IF nr.val # Undef /\ nr.val <= 0 THEN AddFailed("No recipients found in the header.")
     ELSE addChecked(addLoop(p.header, nr.pos, 0, nr.val, i, ctx, EmptyLoopState),
                     i, ctx, newParticipant, p.administrators, ver.val)

addParticipant(iheader, i, ctx, newParticipant) ==
  addParsed(parseHeader(iheader), i, ctx, newParticipant)

\* -------------------------------------------------------- removeParticipant
\* The loop of removeParticipant, lines 486-521.
RECURSIVE removeLoop(_, _, _, _, _, _)
removeLoop(header, pos, idx, n, targetParticipant, st) ==
  IF idx >= n \/ pos >= Len(header) THEN st
  ELSE LET rk == read(header, pos, KeyBytes)
           sk == read(header, rk.pos, KeyBytes)
           sender == [st EXCEPT !.senderPublicKey = ToHex(sk.val)]
           kl == readVarIntNum(header, sk.pos)
           ek == read(header, kl.pos, kl.val)
           pushed == [sender EXCEPT !.recipients = Append(@, ToHex(rk.val)),
                                    !.encryptedKeys = Append(@, ek.val)]
       IN IF Len(rk.val) # KeyBytes
          THEN removeLoop(header, rk.pos, idx + 1, n, targetParticipant, st)
          ELSE IF Len(sk.val) # KeyBytes
          THEN removeLoop(header, sk.pos, idx + 1, n, targetParticipant, st)
          ELSE IF kl.threw THEN removeLoop(header, kl.pos, idx + 1, n, targetParticipant, sender)
          ELSE IF Len(ek.val) # kl.val
          THEN removeLoop(header, ek.pos, idx + 1, n, targetParticipant, sender)
          ELSE IF ToHex(rk.val) # targetParticipant
          THEN removeLoop(header, ek.pos, idx + 1, n, targetParticipant, pushed)
          ELSE removeLoop(header, ek.pos, idx + 1, n, targetParticipant, sender)

RemoveFailed(cause) ==
  [ok |-> FALSE, val |-> <<>>, err |-> "Failed to remove participant.", cause |-> cause]

\* (mutant) removeParticipant taking the target off the administrators too
removeCheckedWithAdministrators(st, targetParticipant, administrators, version) ==
  LET updatedHeader == buildHeader(st.senderPublicKey, st.recipients, st.encryptedKeys,
                                   SelectSeq(administrators,
                                             LAMBDA a : a # targetParticipant),
                                   version)
  IN IF st.senderPublicKey = <<>>
     THEN RemoveFailed("Sender public key not found in the header.")
     ELSE IF Contains(st.recipients, targetParticipant)
          THEN RemoveFailed("Failed to remove participant from the header.")
     ELSE IF ~updatedHeader.ok THEN RemoveFailed(updatedHeader.err)
     ELSE [ok |-> TRUE, val |-> updatedHeader.val, err |-> "", cause |-> ""]

\* Lines 523-537: st is what the loop left.
removeChecked(st, targetParticipant, administrators, version) ==
  LET updatedHeader == buildHeader(st.senderPublicKey, st.recipients, st.encryptedKeys,
                                   administrators, version)
  IN IF st.senderPublicKey = <<>>
     THEN RemoveFailed("Sender public key not found in the header.")
     ELSE IF Contains(st.recipients, targetParticipant)
          THEN RemoveFailed("Failed to remove participant from the header.")
     ELSE IF ~updatedHeader.ok THEN RemoveFailed(updatedHeader.err)
     ELSE [ok |-> TRUE, val |-> updatedHeader.val, err |-> "", cause |-> ""]

\* Lines 474-537: the caller has passed the administrator check.
removeEntries(p, targetParticipant) ==
  LET ver == readUInt32LE(p.header, 0)
      nr == readVarIntNum(p.header, ver.pos)
  IN IF nr.val # Undef /\ nr.val <= 0 THEN RemoveFailed("No recipients found in the header.")
     ELSE removeChecked(removeLoop(p.header, nr.pos, 0, nr.val, targetParticipant,
                                   EmptyLoopState),
                        targetParticipant, p.administrators, ver.val)

\* (mutant) removeParticipant without the administrator check of lines 467-472
removeParsedUnchecked(p, i, targetParticipant) ==
  IF ~p.ok THEN RemoveFailed(p.err)
  ELSE removeEntries(p, targetParticipant)

\* Lines 456-537: p is what parseHeader returned, i the calling wallet.
removeParsed(p, i, targetParticipant) ==
  IF ~p.ok THEN RemoveFailed(p.err)
  ELSE IF ~Contains(p.administrators, getPublicKey(i))
       THEN RemoveFailed("Only administrators are allowed to remove participants.")
  ELSE removeEntries(p, targetParticipant)

removeParticipant(iheader, i, targetParticipant) ==
  removeParsed(parseHeader(iheader), i, targetParticipant)

\* ------------------------------------------------------------------ encrypt
\* (mutant) the sender pushed to the end of the supplied list
ensureSenderLast(hasAdministrators, administrators, senderPublicKey) ==
  IF ~hasAdministrators THEN <<senderPublicKey>>
  ELSE IF \A a \in 1..Len(administrators) : administrators[a] # senderPublicKey
       THEN Append(administrators, senderPublicKey)
  ELSE administrators

\* Step 4, lines 31-35: the administrators list after the sender is ensured.
ensureSender(hasAdministrators, administrators, senderPublicKey) ==
  IF ~hasAdministrators THEN <<senderPublicKey>>
  ELSE IF ~Contains(administrators, senderPublicKey) THEN <<senderPublicKey>> \o administrators
  ELSE administrators

EncryptFailed(cause) ==
  [ok |-> FALSE, err |-> "Encryption failed", cause |-> cause,
   header |-> <<>>, encryptedMessage |-> <<>>]

\* encrypt by wallet i, its caller leaving the two arrays alone while the
\* call waits; k numbers the key SymmetricKey.fromRandom() returns
encrypt(i, k, message, ctx, recipients, hasAdministrators, administrators) ==
  LET encryptedMessage == SymEncrypt(toArray(k), message)
      senderPublicKey == getPublicKey(i)
      admins == ensureSender(hasAdministrators, administrators, senderPublicKey)
      wraps == [r \in 1..Len(recipients) |-> WalletEncrypt(i, ctx, recipients[r], toArray(k))]
      encryptedKeys == [r \in 1..Len(recipients) |-> wraps[r].val]
      header == buildHeader(senderPublicKey, recipients, encryptedKeys, admins, ZeroWord)
  IN IF \E a \in 1..Len(admins) : Len(admins[a]) # KeyHexLen
     THEN EncryptFailed("Invalid administrator public key")
     ELSE IF \E r \in 1..Len(recipients) : ~wraps[r].ok THEN EncryptFailed("Invalid counterparty")
     ELSE IF ~header.ok THEN EncryptFailed(header.err)
     ELSE [ok |-> TRUE, err |-> "", cause |-> "",
           header |-> header.val, encryptedMessage |-> encryptedMessage]

\* ============================================================ state machine
\* One envelope and the calls made on it.  Whoever holds the envelope passes
\* the header a successful addParticipant or removeParticipant returns on to
\* the others; the body never changes.  Every method is an async function: a
\* call runs up to its first await, goes on when the promise it waits for
\* settles, and other calls run in between.
VARIABLES
  header,      \* the current header (with its length prefix), <<>> before encrypt
  body,        \* encryptedMessage as encrypt returned it
  sent,        \* the arguments of the encrypt call that made the envelope
  mutations,   \* successful addParticipant / removeParticipant calls that led to header
  calls,       \* the calls in progress, in the order they were made
  last         \* the call that returned last: who made it, with what, and what came back

vars == <<header, body, sent, mutations, calls, last>>

\* ------------------------------------------------------------------ inputs
Messages == {<<>>, <<1, 2, 3, 4>>}

KeyStrings == {PubKeyHex(i) : i \in Ids}

\* the same keys as a caller may also write them: hex digits in capitals
ToUpper(str) == [k \in 1..Len(str) |-> IF str[k] >= 97 /\ str[k] <= 102 THEN str[k] - 32 ELSE str[k]]
UpperKeyStrings == {ToUpper(PubKeyHex(i)) : i \in 1..NumUpper}
ArgumentStrings == KeyStrings \cup UpperKeyStrings

RECURSIVE SeqsUpTo(_, _)
SeqsUpTo(S, n) ==
  IF n = 0 THEN {<<>>}
  ELSE LET shorter == SeqsUpTo(S, n - 1)
       IN shorter \cup {Append(q, x) : q \in {r \in shorter : Len(r) = n - 1}, x \in S}

RecipientLists == SeqsUpTo(KeyStrings, MaxRecipients)
AdministratorLists == SeqsUpTo(KeyStrings, MaxAdministrators)

NoCall ==
  [op |-> "none", by |-> 0, ctx |-> 0, arg |-> <<>>, ok |-> FALSE, err |-> "",
   cause |-> "", val |-> <<>>, before |-> <<>>]

NothingSent ==
  [sender |-> 0, key |-> 0, message |-> <<>>, ctx |-> 0, recipients |-> <<>>,
   hasAdministrators |-> FALSE, administrators |-> <<>>]

Init ==
  /\ header = <<>>
  /\ body = <<>>
  /\ sent = NothingSent
  /\ mutations = 0
  /\ calls = <<>>
  /\ last = NoCall

\* the calls in progress without call c
Without(c) == SubSeq(calls, 1, c - 1) \o SubSeq(calls, c + 1, Len(calls))

\* ----------------------------------------------------------------- encrypt
\* The call in progress holds the caller's two arrays as they are now
\* (recipients, administrators: the call works on the arrays it was given,
\* and the caller can still reach them), the values they had when the call
\* was made (arg, given), the recipients the wrap calls were made for
\* (wrapped), the wrap calls not yet settled (pending), the order in which
\* wraps settled, the array Promise.all fills (encryptedKeys) and the number
\* of wallet.encrypt calls made (wrapCalls).

\* Lines 20-28, wallet i calls encrypt: the key is drawn (k numbers it), the
\* message encrypted and the sender's key asked for.
Encrypt(i, k, message, ctx, recipients, hasAdministrators, administrators) ==
  /\ calls' = Append(calls,
       [op |-> "encrypt", pc |-> "getPublicKey", by |-> i, ctx |-> ctx, key |-> k,
        message |-> message, arg |-> recipients, recipients |-> recipients,
        hasAdministrators |-> hasAdministrators, given |-> administrators,
        administrators |-> administrators, touched |-> FALSE,
        wrapped |-> <<>>, pending |-> {}, order |-> <<>>, encryptedKeys |-> <<>>,
        rejected |-> FALSE, wrapCalls |-> 0,
        ok |-> FALSE, err |-> "", cause |-> "", val |-> <<>>, before |-> <<>>,
        returned |-> [header |-> <<>>, encryptedMessage |-> <<>>]])
  /\ UNCHANGED <<header, body, sent, mutations, last>>

\* What the caller gets from an encrypt call: the envelope, or the error of
\* lines 66-69.  A call that returns when an envelope is already there is
\* recorded as "encrypt again", with the second envelope as its value.
EncryptReturned(call, ok, cause, hdr, encryptedMessage) ==
  [call EXCEPT !.op = IF header = <<>> THEN "encrypt" ELSE "encrypt again",
               !.pc = "done", !.ok = ok,
               !.err = IF ok THEN "" ELSE "Encryption failed",
               !.cause = cause,
               !.val = IF header = <<>> THEN hdr
                       ELSE [header |-> hdr, encryptedMessage |-> encryptedMessage],
               !.before = header,
               !.returned = [header |-> hdr, encryptedMessage |-> encryptedMessage]]

\* Lines 66-69: the catch block; call c is over.
Thrown(c, call, cause) ==
  /\ last' = EncryptReturned(call, FALSE, cause, <<>>, <<>>)
  /\ calls' = Without(c)
  /\ UNCHANGED <<header, body, sent, mutations>>

\* Lines 38-57: admins is the administrators array after lines 31-35.
Ensured(c, call, admins) ==
  IF \E a \in 1..Len(admins) : Len(admins[a]) # KeyHexLen
  THEN Thrown(c, [call EXCEPT !.administrators = admins],
              "Invalid administrator public key")
  ELSE /\ calls' = [calls EXCEPT ![c] =
            [call EXCEPT !.pc = "Promise.all",
                         !.administrators = admins,
                         !.wrapped = call.recipients,
                         !.pending = 1..Len(call.recipients),
                         !.encryptedKeys = [r \in 1..Len(call.recipients) |-> <<>>],
                         !.wrapCalls = Len(call.recipients)]]
       /\ UNCHANGED <<header, body, sent, mutations, last>>

\* Lines 31-57, when getPublicKey has settled: the sender is ensured among
\* the administrators, the length of every administrator key is checked,
\* and recipients.map runs the callback for every recipient in turn, every
\* callback calling wallet.encrypt before it first awaits.
GotPublicKey(c) ==
  /\ c \in 1..Len(calls)
  /\ calls[c].op = "encrypt" /\ calls[c].pc = "getPublicKey"
  /\ Ensured(c, calls[c],
             ensureSender(calls[c].hasAdministrators, calls[c].administrators,
                          getPublicKey(calls[c].by)))

\* (mutant) the wrapped keys collected in the order the wraps settle
settleInCompletionOrder(encryptedKeys, order, r, ciphertext) ==
  [encryptedKeys EXCEPT ![Len(order) + 1] = ciphertext]

\* Promise.all, line 45: the value of the promise made for recipient r
\* becomes element r of the array, whenever it settles
settle(encryptedKeys, order, r, ciphertext) ==
  [encryptedKeys EXCEPT ![r] = ciphertext]

\* (mutant) a wrap that failed passed over, the call going on with the rest
wrapSettledBestEffort(call, r, encryptedKey) ==
  [call EXCEPT !.pending = @ \ {r},
               !.order = Append(@, r),
               !.encryptedKeys = settle(@, call.order, r, encryptedKey.val)]

\* Lines 45-58: the call after the wrap made for recipient r has settled with
\* encryptedKey; a rejection rejects Promise.all.
wrapSettled(call, r, encryptedKey) ==
  [call EXCEPT !.pending = @ \ {r},
               !.order = Append(@, r),
               !.rejected = ~encryptedKey.ok,
               !.encryptedKeys = IF encryptedKey.ok
                                 THEN settle(@, call.order, r, encryptedKey.val)
                                 ELSE @]

\* Call c after one of its wraps has settled with encryptedKey.
WrapReturned(c, after, encryptedKey) ==
  IF after.rejected
  THEN Thrown(c, after, encryptedKey.err)
  ELSE /\ calls' = [calls EXCEPT ![c] = after]
       /\ UNCHANGED <<header, body, sent, mutations, last>>

WrapSettles(c, r, encryptedKey) ==
  WrapReturned(c, wrapSettled(calls[c], r, encryptedKey), encryptedKey)

\* The wrap call of call c for recipient r settles.
Wrapped(c, r) ==
  /\ c \in 1..Len(calls)
  /\ calls[c].op = "encrypt" /\ calls[c].pc = "Promise.all"
  /\ r \in calls[c].pending
  /\ WrapSettles(c, r, WalletEncrypt(calls[c].by, calls[c].ctx, calls[c].wrapped[r],
                                     toArray(calls[c].key)))

\* the wrapped keys as buildHeader finds them at the indices of recipients:
\* nothing at an index the array of wrapped keys does not have
keysAt(recipients, encryptedKeys) ==
  [r \in 1..Len(recipients) |-> IF r <= Len(encryptedKeys) THEN encryptedKeys[r] ELSE <<>>]

\* Lines 63-65: built is what buildHeader returned or threw.  The first
\* envelope returned is the one whose header and body the state holds.
Built(c, call, built, encryptedMessage) ==
  IF ~built.ok
  THEN Thrown(c, call, built.err)
  ELSE /\ last' = EncryptReturned(call, TRUE, "", built.val, encryptedMessage)
       /\ calls' = Without(c)
       /\ header' = IF header = <<>> THEN built.val ELSE header
       /\ body' = IF header = <<>> THEN encryptedMessage ELSE body
       /\ sent' = IF header = <<>>
                  THEN [sender |-> call.by, key |-> call.key,
                        message |-> call.message, ctx |-> call.ctx,
                        recipients |-> call.arg,
                        hasAdministrators |-> call.hasAdministrators,
                        administrators |-> call.given]
                  ELSE sent
       /\ UNCHANGED mutations

\* Lines 60-65, when all wraps have settled: the header is built from the
\* two arrays as they are now, and the envelope returned.
Finish(c) ==
  /\ c \in 1..Len(calls)
  /\ calls[c].op = "encrypt" /\ calls[c].pc = "Promise.all"
  /\ calls[c].pending = {}
  /\ Built(c, calls[c],
           buildHeader(getPublicKey(calls[c].by), calls[c].recipients,
                       keysAt(calls[c].recipients, calls[c].encryptedKeys),
                       calls[c].administrators, ZeroWord),
           SymEncrypt(toArray(calls[c].key), calls[c].message))

\* While encrypt call c waits, its caller appends key to the recipients
\* array (toRecipients) or to the administrators array it passed.
Push(c, toRecipients, key) ==
  LET call == calls[c]
  IN /\ c \in 1..Len(calls)
     /\ call.op = "encrypt"
     /\ toRecipients \/ call.hasAdministrators
     /\ calls' = [calls EXCEPT ![c] =
          IF toRecipients
          THEN [call EXCEPT !.recipients = Append(@, key), !.touched = TRUE]
          ELSE [call EXCEPT !.administrators = Append(@, key), !.touched = TRUE]]
     /\ UNCHANGED <<header, body, sent, mutations, last>>

\* --------------------------------- decrypt, addParticipant, removeParticipant
\* A call in progress holds the buffer it was given (parseHeader copies
\* header and message out of it before the first await), the promises it
\* will wait for one after the other (waits), the one it waits for now (at)
\* and the number of mutations behind the header it was given (depth).

\* wallet.decrypt calls of the loop of decrypt, lines 98-138: one for every
\* entry naming wallet i, up to the first that unwraps
RECURSIVE decryptTries(_, _, _, _, _, _)
decryptTries(h, pos, idx, n, i, ctx) ==
  IF idx >= n \/ pos >= Len(h) THEN 0
  ELSE LET rk == read(h, pos, KeyBytes)
           sk == read(h, rk.pos, KeyBytes)
           kl == readVarIntNum(h, sk.pos)
           ek == read(h, kl.pos, kl.val)
           d == WalletDecrypt(i, ctx, ToHex(sk.val), ek.val)
       IN IF kl.threw THEN decryptTries(h, kl.pos, idx + 1, n, i, ctx)
          ELSE IF ToHex(rk.val) # getPublicKey(i)
               THEN decryptTries(h, ek.pos, idx + 1, n, i, ctx)
          ELSE IF d.ok THEN 1
          ELSE 1 + decryptTries(h, ek.pos, idx + 1, n, i, ctx)

Times(n, wait) == [k \in 1..n |-> wait]

\* The awaits of decrypt, lines 82 and 119; none when parseHeader throws.
decryptWaitsParsed(p, i, ctx) ==
  LET ver == readUInt32LE(p.header, 0)
      nr == readVarIntNum(p.header, ver.pos)
  IN IF ~p.ok THEN <<>>
     ELSE <<"getPublicKey">>
            \o Times(decryptTries(p.header, nr.pos, 0, nr.val, i, ctx), "wallet.decrypt")

decryptWaits(ciphertext, i, ctx) == decryptWaitsParsed(parseHeader(ciphertext), i, ctx)

\* wallet.decrypt calls of the loop of addParticipant, lines 378-423: one
\* for every entry read in full, up to the first that unwraps
RECURSIVE addTries(_, _, _, _, _, _)
addTries(h, pos, idx, n, i, ctx) ==
  IF idx >= n \/ pos >= Len(h) THEN 0
  ELSE LET rk == read(h, pos, KeyBytes)
           sk == read(h, rk.pos, KeyBytes)
           kl == readVarIntNum(h, sk.pos)
           ek == read(h, kl.pos, kl.val)
           d == WalletDecrypt(i, ctx, ToHex(sk.val), ek.val)
       IN IF Len(rk.val) # KeyBytes THEN addTries(h, rk.pos, idx + 1, n, i, ctx)
          ELSE IF Len(sk.val) # KeyBytes THEN addTries(h, sk.pos, idx + 1, n, i, ctx)
          ELSE IF kl.threw THEN addTries(h, kl.pos, idx + 1, n, i, ctx)
          ELSE IF Len(ek.val) # kl.val THEN addTries(h, ek.pos, idx + 1, n, i, ctx)
          ELSE IF d.ok THEN 1
          ELSE 1 + addTries(h, ek.pos, idx + 1, n, i, ctx)

\* whether the call reaches wallet.encrypt, line 434: st is what the loop left
addWraps(st, newParticipant) ==
  /\ st.senderPublicKey # <<>>
  /\ ~Contains(st.recipients, newParticipant)
  /\ st.symmetricKey.found

\* The awaits of addParticipant, lines 410 and 434.
addWaitsParsed(p, i, ctx, newParticipant) ==
  LET ver == readUInt32LE(p.header, 0)
      nr == readVarIntNum(p.header, ver.pos)
  IN IF ~p.ok THEN <<>>
     ELSE IF nr.val # Undef /\ nr.val <= 0 THEN <<>>
     ELSE Times(addTries(p.header, nr.pos, 0, nr.val, i, ctx), "wallet.decrypt")
            \o IF addWraps(addLoop(p.header, nr.pos, 0, nr.val, i, ctx, EmptyLoopState),
                           newParticipant)
               THEN <<"wallet.encrypt">> ELSE <<>>

addWaits(iheader, i, ctx, newParticipant) ==
  addWaitsParsed(parseHeader(iheader), i, ctx, newParticipant)

\* The await of removeParticipant, line 468.
removeWaits(iheader) == IF parseHeader(iheader).ok THEN <<"getPublicKey">> ELSE <<>>

\* what call returns, or throws, to its caller: r is the outcome of the method
Outcome(call, r, cause) ==
  [op |-> call.op, by |-> call.by, ctx |-> call.ctx, arg |-> call.arg, ok |-> r.ok,
   err |-> r.err, cause |-> cause, val |-> r.val, before |-> call.before]

OutcomeWithCause(call, r) == Outcome(call, r, r.cause)

Returned(call) ==
  IF call.op = "decrypt"
  THEN Outcome(call, decrypt(call.given, call.by, call.ctx), "")
  ELSE IF call.op = "add"
  THEN OutcomeWithCause(call, addParticipant(call.before, call.by, call.ctx, call.arg))
  ELSE OutcomeWithCause(call, removeParticipant(call.before, call.by, call.arg))

\* a call that throws before its first await is over when made
Over(outcome) ==
  /\ last' = outcome
  /\ UNCHANGED <<header, body, sent, mutations, calls>>

\* The call is made: it runs up to its first await, or, where it throws
\* before any await, is over.
Made(call) ==
  IF call.waits = <<>>
  THEN Over(Returned(call))
  ELSE /\ calls' = Append(calls, call)
       /\ UNCHANGED <<header, body, sent, mutations, last>>

\* wallet i calls decrypt on header || body
Decrypt(i, ctx) ==
  /\ header # <<>>
  /\ Made([op |-> "decrypt", by |-> i, ctx |-> ctx, arg |-> <<>>, before |-> header,
           given |-> header \o body, waits |-> decryptWaits(header \o body, i, ctx),
           at |-> 1, depth |-> mutations])

\* wallet i calls addParticipant on the current header
AddParticipant(i, ctx, newParticipant) ==
  /\ header # <<>>
  /\ Made([op |-> "add", by |-> i, ctx |-> ctx, arg |-> newParticipant,
           before |-> header, given |-> header,
           waits |-> addWaits(header, i, ctx, newParticipant),
           at |-> 1, depth |-> mutations])

\* wallet i calls removeParticipant on the current header
RemoveParticipant(i, targetParticipant) ==
  /\ header # <<>>
  /\ Made([op |-> "remove", by |-> i, ctx |-> 0, arg |-> targetParticipant,
           before |-> header, given |-> header, waits |-> removeWaits(header),
           at |-> 1, depth |-> mutations])

\* Call c returns outcome.  The header a successful addParticipant or
\* removeParticipant returns becomes the current one when its caller hands
\* it on to the other holders (handedOn).
Returns(c, outcome, depth, handedOn) ==
  /\ calls' = Without(c)
  /\ last' = outcome
  /\ header' = IF outcome.op # "decrypt" /\ outcome.ok /\ handedOn THEN outcome.val
               ELSE header
  /\ mutations' = IF outcome.op # "decrypt" /\ outcome.ok /\ handedOn THEN depth + 1
                  ELSE mutations
  /\ UNCHANGED <<body, sent>>

\* The promise call c waits for settles: the call goes on to its next await
\* or, after the last, returns.
Settle(c, handedOn) ==
  /\ c \in 1..Len(calls)
  /\ calls[c].op \in {"decrypt", "add", "remove"}
  /\ IF calls[c].at < Len(calls[c].waits)
     THEN /\ calls' = [calls EXCEPT ![c].at = @ + 1]
          /\ UNCHANGED <<header, body, sent, mutations, last>>
     ELSE Returns(c, Returned(calls[c]), calls[c].depth, handedOn)

\* the caller has taken what the last call returned
Return ==
  /\ last # NoCall
  /\ last' = NoCall
  /\ UNCHANGED <<header, body, sent, mutations, calls>>

\* no call is in progress and the last outcome has been taken
Idle == calls = <<>> /\ last = NoCall

\* One call at a time, each made when the one before has returned.  A
\* returned header is handed on when fewer than MaxVersion - 1 mutations lie
\* behind the header the call was given.
Next ==
  \/ \E message \in Messages, recipients \in RecipientLists,
        hasAdministrators \in BOOLEAN, administrators \in AdministratorLists :
       /\ (~hasAdministrators => administrators = <<>>)
       /\ Idle /\ header = <<>>
       /\ Encrypt(Creator, FreshKey, message, SentContext, recipients,
                  hasAdministrators, administrators)
  \/ \E i \in Ids, ctx \in Contexts : Idle /\ Decrypt(i, ctx)
  \/ \E i \in Ids, ctx \in Contexts, newParticipant \in ArgumentStrings :
       Idle /\ AddParticipant(i, ctx, newParticipant)
  \/ \E i \in Ids, targetParticipant \in ArgumentStrings :
       Idle /\ RemoveParticipant(i, targetParticipant)
  \/ \E c \in 1..Len(calls) : GotPublicKey(c)
  \/ \E c \in 1..Len(calls), r \in 1..MaxRecipients : Wrapped(c, r)
  \/ \E c \in 1..Len(calls) : Finish(c)
  \/ \E c \in 1..Len(calls) : Settle(c, calls[c].depth < MaxVersion - 1)
  \/ Return

Spec == Init /\ [][Next]_vars

\* =================================================================== claims
\* Reading a well-formed header for the statements below: its version, its
\* entries (with the offset of each in the header) and its administrators.
ContentStart(h) == readVarIntNum(h, 0).pos

VersionOf(h) ==
  LET c == ContentStart(h)
  IN h[c + 1] + 256 * h[c + 2] + 65536 * h[c + 3] + 16777216 * h[c + 4]

RECURSIVE EntriesFrom(_, _, _)
EntriesFrom(h, pos, n) ==
  IF n = 0 THEN <<>>
  ELSE LET kl == readVarIntNum(h, pos + 2 * KeyBytes)
       IN <<[at |-> pos,
             recipient |-> SubSeq(h, pos + 1, pos + KeyBytes),
             sender |-> SubSeq(h, pos + KeyBytes + 1, pos + 2 * KeyBytes),
             key |-> SubSeq(h, kl.pos + 1, kl.pos + kl.val),
             end |-> kl.pos + kl.val]>>
          \o EntriesFrom(h, kl.pos + kl.val, n - 1)

EntriesOf(h) ==
  LET nr == readVarIntNum(h, ContentStart(h) + 4)
  IN EntriesFrom(h, nr.pos, nr.val)

AdministratorsOf(h) ==
  LET es == EntriesOf(h)
      na == readVarIntNum(h, es[Len(es)].end)
  IN [a \in 1..na.val |-> SubSeq(h, na.pos + (a - 1) * KeyBytes + 1, na.pos + a * KeyBytes)]

\* identity i is named as recipient by some entry of h
HasEntry(h, i) == \E e \in 1..Len(EntriesOf(h)) : EntriesOf(h)[e].recipient = PubKeyBytes(i)

\* identity i is one of the administrators h lists
IsAdministrator(h, i) ==
  \E a \in 1..Len(AdministratorsOf(h)) : AdministratorsOf(h)[a] = PubKeyBytes(i)

\* the identities the recipients list handed to encrypt names
SentTo == {WalletOf(sent.recipients[r]) : r \in 1..Len(sent.recipients)}

NotFound == Throw("Decryption failed: Your key is not found in the header.")

\* what wallet i gets from decrypt on the current envelope, in the context
\* the message was encrypted under
Opens(i) == decrypt(header \o body, i, sent.ctx)

Fresh == header # <<>> /\ mutations = 0     \* the envelope is as encrypt returned it

\* ----------------------------------------------------------------------- C1
\* C1 (round trip): every identity of the recipients list decrypts the
\* envelope encrypt returned, in the context of the encrypt call, to exactly
\* the message that was encrypted; the empty message and the sender as only
\* recipient included.
C1_RoundTrip ==
  Fresh => \A r \in SentTo : Opens(r) = Ok(sent.message)

\* the sender, sole recipient of the empty message, has decrypted it
C1_Witness ==
  /\ Fresh
  /\ sent.message = <<>>
  /\ sent.recipients = <<PubKeyHex(sent.sender)>>
  /\ last.op = "decrypt" /\ last.by = sent.sender /\ last.ctx = sent.ctx
  /\ last.ok /\ last.val = <<>>

\* ----------------------------------------------------------------------- C2
\* h with one byte (offset o of the 33) of the recipient key inverted in
\* every entry that names identity i
RECURSIVE AlterAt(_, _, _)
AlterAt(h, es, o) ==
  IF es = <<>> THEN h
  ELSE AlterAt([h EXCEPT ![es[1].at + o + 1] = 255 - @], Tail(es), o)

Altered(h, i, o) ==
  AlterAt(h, SelectSeq(EntriesOf(h), LAMBDA e : e.recipient = PubKeyBytes(i)), o)

\* C2 (non-membership): on the envelope encrypt returned, decrypt by an
\* identity outside the recipients list fails, in every context, with 'Your
\* key is not found in the header.'; so does decrypt by a recipient once a
\* byte of its identity in the header has been altered.
C2_NonMember ==
  (last.op = "encrypt" /\ last.ok) =>
     /\ \A k \in Ids \ SentTo : \A ctx \in Contexts :
          decrypt(header \o body, k, ctx) = NotFound
     /\ \A r \in SentTo : \A o \in 0..(KeyBytes - 1) :
          decrypt(Altered(header, r, o) \o body, r, sent.ctx) = NotFound

\* an identity outside a two-recipient list (the sender itself) was refused
C2_Witness ==
  /\ Fresh
  /\ Cardinality(SentTo) = 2
  /\ sent.sender \notin SentTo
  /\ last.op = "decrypt" /\ last.by = sent.sender /\ last.ctx = sent.ctx
  /\ last = [last EXCEPT !.ok = FALSE, !.err = NotFound.err, !.val = <<>>]

\* ----------------------------------------------------------------------- C3
\* C3 (revocation): after an administrator's removeParticipant(header, r)
\* returns newHeader, r fails decrypt(newHeader || body) with the
\* recipient-not-found error and every other identity that had an entry in
\* the old header decrypts newHeader || body to the original message.
C3_Revocation ==
  (last.op = "remove" /\ last.ok /\ IsAdministrator(last.before, last.by)
     /\ header = last.val) =>
     /\ Opens(WalletOf(last.arg)) = NotFound
     /\ \A j \in Ids \ {WalletOf(last.arg)} :
          HasEntry(last.before, j) => Opens(j) = Ok(sent.message)

\* ----------------------------------------------------------------------- C4
\* C4 (addition): after a current recipient's addParticipant(header, context,
\* newR) returns newHeader, newR decrypts newHeader || body in that context
\* to the original message, and every identity without an entry in newHeader
\* still fails to decrypt.
C4_Addition ==
  (last.op = "add" /\ last.ok) =>
     /\ decrypt(last.val \o body, WalletOf(last.arg), last.ctx) = Ok(sent.message)
     /\ \A k \in Ids : ~HasEntry(last.val, k) => ~decrypt(last.val \o body, k, last.ctx).ok

\* ----------------------------------------------------------------------- C5
\* C5 (authorization): removeParticipant called by an identity that is not in
\* the header's administrator list fails and returns no header, whatever the
\* target and whether or not the caller is a recipient; the header stays as
\* it was.
C5_Authorization ==
  (last.op = "remove" /\ ~IsAdministrator(last.before, last.by)) =>
     ~last.ok /\ last.val = <<>> /\ header = last.before

\* a recipient that is no administrator tried to remove another recipient
C5_Witness ==
  /\ last.op = "remove"
  /\ ~IsAdministrator(last.before, last.by)
  /\ HasEntry(last.before, last.by)
  /\ WalletOf(last.arg) # last.by
  /\ HasEntry(last.before, WalletOf(last.arg))
  /\ ~last.ok
  /\ last.cause = "Only administrators are allowed to remove participants."

\* ----------------------------------------------------------------------- C6
\* C6 (versioning): the header encrypt returns has version 1 and every
\* successful addParticipant or removeParticipant returns a header whose
\* version is one more than that of the header it was given: after n
\* successful mutations the version is 1 + n.
C6_Versioning ==
  /\ header # <<>> => VersionOf(header) = 1 + mutations
  /\ (last.op \in {"add", "remove"} /\ last.ok) =>
        VersionOf(last.val) = VersionOf(last.before) + 1

\* an entry was removed by the second mutation, giving version 3
C6_Witness ==
  /\ mutations = 2
  /\ last.op = "remove" /\ last.ok
  /\ Len(EntriesOf(header)) + 1 = Len(EntriesOf(last.before))
  /\ VersionOf(last.before) = 2
  /\ VersionOf(header) = 3

\* ----------------------------------------------------------------------- C7
\* C7 (membership lineage): after encrypt and any sequence of successful
\* addParticipant and removeParticipant calls, every identity with an entry
\* in the resulting header decrypts header || body to the original message
\* and every identity without an entry fails to decrypt.
C7_Lineage ==
  header # <<>> =>
     \A i \in Ids : IF HasEntry(header, i) THEN Opens(i) = Ok(sent.message)
                                       ELSE ~Opens(i).ok

\* ----------------------------------------------------------------------- C8
\* the administrators of h as the hex strings parseHeader's callers compare
AdministratorKeys(h) ==
  [a \in 1..Len(AdministratorsOf(h)) |-> ToHex(AdministratorsOf(h)[a])]

\* C8 (creator is always an administrator): the administrator list of the
\* header encrypt returns contains the caller's identity; with no
\* administrators supplied it is exactly [own], and when the supplied list
\* lacks own, own comes first, before the supplied identities.
C8_CreatorAdministrator ==
  Fresh =>
     LET own == PubKeyHex(sent.sender)
         listed == AdministratorKeys(header)
     IN /\ Contains(listed, own)
        /\ ~sent.hasAdministrators => listed = <<own>>
        /\ (sent.hasAdministrators /\ ~Contains(sent.administrators, own)) =>
              listed = <<own>> \o sent.administrators

\* encrypt was given a list naming one other identity
C8_Witness ==
  /\ last.op = "encrypt" /\ last.ok
  /\ sent.hasAdministrators
  /\ Len(sent.administrators) = 1
  /\ sent.administrators[1] # PubKeyHex(sent.sender)
  /\ Len(AdministratorsOf(header)) = 2

\* ----------------------------------------------------------------------- C9
\* C9 (duplicate add): addParticipant whose newParticipant already has an
\* entry in the header fails with a duplicate-participant error and returns
\* no new header; the header stays as it was.
C9_DuplicateAdd ==
  (last.op = "add" /\ HasEntry(last.before, WalletOf(last.arg))) =>
     /\ ~last.ok /\ last.val = <<>> /\ header = last.before
     /\ last.err = "Participant already exists in the header."

\* ---------------------------------------------------------------------- C10
\* C10 (removing an absent participant): removeParticipant called by an
\* administrator with a target that has no entry in the header fails; it
\* never returns a header.
C10_RemoveAbsent ==
  (last.op = "remove" /\ IsAdministrator(last.before, last.by)
     /\ ~HasEntry(last.before, WalletOf(last.arg))) =>
     ~last.ok /\ last.val = <<>> /\ header = last.before

\* ---------------------------------------------------------------------- C11
\* C11 (non-empty header): every header encrypt, addParticipant or
\* removeParticipant returned names at least one recipient and at least one
\* administrator; encrypt with an empty recipients list fails and returns no
\* envelope; removeParticipant of the only remaining recipient fails and
\* returns no header.
C11_NonEmptyHeader ==
  /\ header # <<>> => Len(EntriesOf(header)) >= 1 /\ Len(AdministratorsOf(header)) >= 1
  /\ (last.op = "encrypt" /\ last.arg = <<>>) =>
        ~last.ok /\ last.val = <<>> /\ header = <<>> /\ body = <<>>
  /\ (last.op = "remove"
        /\ \A e \in 1..Len(EntriesOf(last.before)) :
              ToHex(EntriesOf(last.before)[e].recipient) = last.arg) =>
        ~last.ok /\ last.val = <<>> /\ header = last.before

\* an administrator tried to remove the one recipient the header names
C11_Witness ==
  /\ last.op = "remove"
  /\ IsAdministrator(last.before, last.by)
  /\ Len(EntriesOf(last.before)) = 1
  /\ ToHex(EntriesOf(last.before)[1].recipient) = last.arg
  /\ ~last.ok
  /\ last.cause = "No valid recipients found to build the header."
  /\ header = last.before

\* ---------------------------------------------------------------------- C13
\* C13 (context binding): decrypt run by a genuine recipient under a
\* (protocolID, keyID) other than the one given to encrypt returns no
\* message; it rejects with 'Decryption failed: Your key is not found in the
\* header.'
C13_ContextBinding ==
  (last.op = "decrypt" /\ HasEntry(header, last.by) /\ last.ctx # sent.ctx) =>
     ~last.ok /\ last.val = <<>> /\ last.err = NotFound.err

\* a recipient that opens the envelope in the sending context was refused in
\* another one
C13_Witness ==
  /\ last.op = "decrypt"
  /\ HasEntry(header, last.by)
  /\ last.ctx # sent.ctx
  /\ Opens(last.by) = Ok(sent.message)
  /\ last.err = NotFound.err

\* ---------------------------------------------------------------------- C17
\* the recipients list with every repeated identity dropped after its first
\* occurrence
FirstOccurrences(recipients) ==
  LET F[n \in 0..Len(recipients)] ==
        IF n = 0 THEN <<>>
        ELSE IF Contains(F[n - 1], recipients[n]) THEN F[n - 1]
        ELSE Append(F[n - 1], recipients[n])
  IN F[Len(recipients)]

\* the recipients the entries of h name, in order, as hex strings
RecipientsOf(h) == [e \in 1..Len(EntriesOf(h)) |-> ToHex(EntriesOf(h)[e].recipient)]

\* C17 (one entry per recipient): no header encrypt, addParticipant or
\* removeParticipant returned has two entries with the same recipient; for a
\* recipients list with repeated identities encrypt's header has one entry
\* per distinct identity, in order of first occurrence.
C17_OneEntryPerRecipient ==
  /\ header # <<>> =>
        \A e1, e2 \in 1..Len(EntriesOf(header)) :
           e1 # e2 => EntriesOf(header)[e1].recipient # EntriesOf(header)[e2].recipient
  /\ Fresh => RecipientsOf(header) = FirstOccurrences(sent.recipients)

\* ---------------------------------------------------------------------- C22
\* C22 (wrap-counterparty of an added entry): in the header addParticipant
\* returns, the entry appended for newParticipant records as its
\* wrap-counterparty the caller of that addParticipant, whose wallet wrapped
\* the key.
C22_WrapCounterparty ==
  (last.op = "add" /\ last.ok) =>
     LET es == EntriesOf(last.val)
     IN /\ es[Len(es)].recipient = FromHex(last.arg)
        /\ es[Len(es)].sender = PubKeyBytes(last.by)

\* ---------------------------------------------------------------------- C24
\* C24 (administrators are a frame of mutation): the administrator list of
\* the header a successful addParticipant or removeParticipant returns has
\* the members and the order of the input header's list, also when the
\* removed recipient is an administrator.
C24_AdministratorFrame ==
  (last.op \in {"add", "remove"} /\ last.ok) =>
     AdministratorsOf(last.val) = AdministratorsOf(last.before)

\* a recipient that is the second of two administrators was removed
C24_Witness ==
  /\ last.op = "remove" /\ last.ok
  /\ Len(AdministratorsOf(last.before)) = 2
  /\ AdministratorsOf(last.before)[2] = FromHex(last.arg)
  /\ HasEntry(last.before, WalletOf(last.arg))
  /\ ~HasEntry(header, WalletOf(last.arg))
  /\ Len(AdministratorsOf(header)) = 2

\* ==================================================== the envelope in transit
\* A second specification: the envelope between encrypt and the calls made on
\* it.  Whatever carries the buffer may cut it short or change bytes of it;
\* encrypt may be called a second time with the same arguments; buildHeader,
\* a public method, may be called directly.
CutStep == 8          \* one cut in every CutStep bytes
NumKeys == 2          \* keys SymmetricKey.fromRandom() may return

WireMessage == <<1, 2, 3, 4>>

\* 66 hex characters that are no public key: the first byte is 05, which
\* PublicKey.fromString refuses, so wallet.encrypt throws for it
Unwrappable == [k \in 1..KeyHexLen |-> IF k = 1 THEN 48 ELSE IF k = 2 THEN 53 ELSE PubKeyHex(1)[k]]

\* a string that is no 33-byte key in hexadecimal
ShortKey == <<97, 98>>

WireRecipientLists == SeqsUpTo(KeyStrings \cup {Unwrappable}, MaxRecipients)

\* what encrypt returned for the arguments recorded in sent
Original ==
  encrypt(sent.sender, sent.key, sent.message, sent.ctx, sent.recipients,
          sent.hasAdministrators, sent.administrators)

Untampered ==
  /\ header # <<>> /\ mutations = 0
  /\ header = Original.header /\ body = Original.encryptedMessage

\* the header without its length prefix
ContentOf(h) == SubSeq(h, ContentStart(h) + 1, Len(h))

\* the buffer ends after n bytes, inside the header
Truncate(n) ==
  /\ n \in 1..(Len(header) - 1)
  /\ header' = SubSeq(header, 1, n)
  /\ body' = <<>>
  /\ UNCHANGED <<sent, mutations, calls, last>>

\* the header holds only the first n bytes of its content, its length prefix
\* saying so
CutContent(n) ==
  /\ n \in 0..(Len(ContentOf(header)) - 1)
  /\ header' = writeVarIntNum(n) \o SubSeq(ContentOf(header), 1, n)
  /\ UNCHANGED <<body, sent, mutations, calls, last>>

\* byte k of the body changed
AlterBody(k) ==
  /\ k \in 1..Len(body)
  /\ body' = [body EXCEPT ![k] = (@ + 1) % 256]
  /\ UNCHANGED <<header, sent, mutations, calls, last>>

\* h with byte k of the wrapped key of its entry e changed
WithAlteredKey(h, e, k) ==
  LET entry == EntriesOf(h)[e]
  IN [h EXCEPT ![entry.end - Len(entry.key) + k] = (@ + 1) % 256]

AlterKey(e, k) ==
  /\ e \in 1..Len(EntriesOf(header))
  /\ k \in 1..Len(EntriesOf(header)[e].key)
  /\ header' = WithAlteredKey(header, e, k)
  /\ UNCHANGED <<body, sent, mutations, calls, last>>

\* between two calls, the envelope encrypt returned is changed once
Tamper ==
  /\ Idle
  /\ Untampered
  /\ \/ \E n \in {m \in 1..Len(header) : m % CutStep = 1} : Truncate(n)
     \/ \E n \in {m \in 0..Len(header) : m % CutStep = 0} : CutContent(n)
     \/ \E k \in 1..Len(body) : AlterBody(k)
     \/ \E e \in 1..MaxRecipients : \E k \in 1..KeyBytes : AlterKey(e, k)

\* h with its entry e as wallet j wraps a key for the entry's recipient: the
\* entry names j as sender and carries the key (numbered k) under the key j
\* and the recipient share.  No method of the class writes such an entry
\* beside entries of another sender (buildHeader, lines 208-216, writes one
\* sender into every entry): a header with it is a buffer made outside the
\* class, which the methods take as they take any buffer.
WithWrapBy(h, e, j, k, ctx) ==
  LET entry == EntriesOf(h)[e]
      wrapped == WalletEncrypt(j, ctx, ToHex(entry.recipient), toArray(k)).val
  IN [b \in 1..Len(h) |->
        IF b > entry.at + KeyBytes /\ b <= entry.at + 2 * KeyBytes
        THEN PubKeyBytes(j)[b - entry.at - KeyBytes]
        ELSE IF b > entry.end - Len(entry.key) /\ b <= entry.end
        THEN wrapped[b - (entry.end - Len(entry.key))]
        ELSE h[b]]

\* the header handed on has its entry e wrapped by wallet j
WrapBy(e, j) ==
  /\ e \in 1..Len(EntriesOf(header))
  /\ EntriesOf(header)[e].sender # PubKeyBytes(j)
  /\ header' = WithWrapBy(header, e, j, sent.key, sent.ctx)
  /\ UNCHANGED <<body, sent, mutations, calls, last>>

\* versions a header can have reached: the last one before a carry into
\* the second byte, and the last one the four bytes can hold
HighVersions == {<<255, 0, 0, 0>>, <<255, 255, 255, 255>>}

\* the header carries version word
AtVersion(word) ==
  /\ header' = [b \in 1..Len(header) |->
                  IF b > ContentStart(header) /\ b <= ContentStart(header) + 4
                  THEN word[b - ContentStart(header)] ELSE header[b]]
  /\ UNCHANGED <<body, sent, mutations, calls, last>>

\* between two calls, the header comes back from another holder of the
\* envelope: well formed, with an entry wrapped by another wallet than the
\* creator's (written outside the class) or with a high version
OtherHolder ==
  /\ Idle
  /\ Untampered
  /\ \/ \E e \in 1..MaxRecipients : \E j \in Ids : WrapBy(e, j)
     \/ \E word \in HighVersions : AtVersion(word)

\* the creator calls encrypt once more with the arguments of the first call;
\* SymmetricKey.fromRandom() returns key k, another than the first call's.
\* The first envelope stays the current one; the second is what the call
\* returns.
EncryptAgain(k) ==
  /\ k # sent.key
  /\ Untampered
  /\ Encrypt(sent.sender, k, sent.message, sent.ctx, sent.recipients,
             sent.hasAdministrators, sent.administrators)

\* buildHeader called directly, before any envelope exists
BuildHeader(senderPublicKey, recipients, encryptedKeys, administrators) ==
  LET r == buildHeader(senderPublicKey, recipients, encryptedKeys, administrators, ZeroWord)
  IN /\ header = <<>>
     /\ last' = [op |-> "buildHeader", by |-> 0, ctx |-> 0,
                 arg |-> [recipients |-> recipients, encryptedKeys |-> encryptedKeys],
                 ok |-> r.ok, err |-> r.err, cause |-> "", val |-> r.val, before |-> <<>>]
     /\ UNCHANGED <<header, body, sent, mutations, calls>>

\* One call at a time; the header a call returns is handed on when the call
\* was given the header encrypt returned.
WireNext ==
  \/ \E recipients \in WireRecipientLists :
       /\ Idle /\ header = <<>>
       /\ Encrypt(Creator, FreshKey, WireMessage, SentContext, recipients, FALSE, <<>>)
  \/ \E k \in 1..NumKeys : Idle /\ EncryptAgain(k)
  \/ \E recipients \in SeqsUpTo({PubKeyHex(2), ShortKey}, MaxRecipients) :
       \E encryptedKeys \in [1..Len(recipients) -> {<<>>, <<7>>}] :
          /\ Idle
          /\ BuildHeader(PubKeyHex(Creator), recipients, encryptedKeys,
                         <<PubKeyHex(Creator)>>)
  \/ Tamper
  \/ OtherHolder
  \/ \E i \in Ids : Idle /\ Decrypt(i, SentContext)
  \/ \E i \in Ids, newParticipant \in KeyStrings :
       Idle /\ AddParticipant(i, SentContext, newParticipant)
  \/ \E i \in Ids, targetParticipant \in KeyStrings :
       Idle /\ RemoveParticipant(i, targetParticipant)
  \/ \E c \in 1..Len(calls) : GotPublicKey(c)
  \/ \E c \in 1..Len(calls), r \in 1..MaxRecipients : Wrapped(c, r)
  \/ \E c \in 1..Len(calls) : Finish(c)
  \/ \E c \in 1..Len(calls) : Settle(c, calls[c].depth < 1)
  \/ Return

WireSpec == Init /\ [][WireNext]_vars

\* ---------------------------------------------------------------------- C12
\* the entries of encrypt's header of which the current header has one byte
\* of the wrapped key changed
AlteredEntries ==
  {e \in 1..Len(EntriesOf(Original.header)) :
     \E k \in 1..Len(EntriesOf(Original.header)[e].key) :
        header = WithAlteredKey(Original.header, e, k)}

ParseError == "Failed to parse header or message."
BodyError == "Decryption failed: Decryption failed!"

\* C12 (key-unwrap failure is distinguishable): when the header has an entry
\* for the caller but the wallet cannot unwrap it (its wrapped key is
\* corrupted), decrypt fails with an error other than the recipient-not-found
\* error that identities without an entry get.
C12_UnwrapFailure ==
  (last.op = "decrypt" /\ last.before = header /\ AlteredEntries # {}
     /\ \A e \in 1..Len(EntriesOf(header)) :
           EntriesOf(header)[e].recipient = PubKeyBytes(last.by) => e \in AlteredEntries
     /\ HasEntry(header, last.by)) =>
     ~last.ok /\ last.err # NotFound.err

\* ---------------------------------------------------------------------- C14
\* the body is not the one encrypt returned, the header is
BodyAltered == header = Original.header /\ body # Original.encryptedMessage

\* C14 (body tamper detection): with any one byte of the body changed,
\* decrypt by a genuine recipient returns no message; it fails with
\* 'Decryption failed: Decryption failed!', which is not the
\* recipient-not-found error.
C14_BodyTamper ==
  /\ (last.op = "decrypt" /\ BodyAltered /\ last.by \in SentTo) =>
        ~last.ok /\ last.val = <<>> /\ last.err = BodyError
  /\ Untampered =>
        \A r \in SentTo : \A k \in 1..Len(body) : \A v \in {1, 128, 255} :
           decrypt(header \o [body EXCEPT ![k] = (@ + v) % 256], r, sent.ctx)
             = Throw(BodyError)
  /\ BodyError # NotFound.err

\* a recipient called decrypt after the first byte of the body was changed
C14_Witness ==
  /\ last.op = "decrypt"
  /\ BodyAltered
  /\ body[1] # Original.encryptedMessage[1]
  /\ last.by \in SentTo
  /\ last.err = BodyError

\* ---------------------------------------------------------------------- C15
\* C15 (freshness): a second encrypt call with the same message, context and
\* recipients, drawing its own symmetric key, returns a header and a body
\* that both differ from those of the first, and every recipient decrypts
\* either envelope to the message.
C15_Freshness ==
  (last.op = "encrypt again" /\ last.ok) =>
     /\ last.val.header # header
     /\ last.val.encryptedMessage # body
     /\ \A r \in SentTo :
          /\ decrypt(header \o body, r, sent.ctx) = Ok(sent.message)
          /\ decrypt(last.val.header \o last.val.encryptedMessage, r, sent.ctx)
               = Ok(sent.message)

C15_Witness ==
  /\ last.op = "encrypt again" /\ last.ok
  /\ Cardinality(SentTo) = 2
  /\ Len(last.val.header) = Len(header)
  /\ Len(last.val.encryptedMessage) = Len(body)

\* ---------------------------------------------------------------------- C16
\* C16 (all-or-nothing encrypt): if the wrap for any one recipient fails,
\* encrypt fails as a whole and returns no envelope, whatever the position
\* of that recipient among the others.
C16_AllOrNothing ==
  (last.op = "encrypt" /\ \E r \in 1..Len(last.arg) : WalletOf(last.arg[r]) = 0) =>
     /\ ~last.ok /\ last.val = <<>>
     /\ header = <<>> /\ body = <<>> /\ sent = NothingSent

\* the wrap for the first recipient succeeds, the one for the second fails
C16_Witness ==
  /\ last.op = "encrypt"
  /\ last.arg = <<PubKeyHex(2), Unwrappable>>
  /\ last.order = <<1, 2>>
  /\ ~last.ok
  /\ last.cause = "Invalid counterparty"
  /\ header = <<>>

\* ---------------------------------------------------------------------- C18
\* C18 (no silent dropping): a header buildHeader or encrypt returns has an
\* entry for every recipient given; a recipient that is no well-formed
\* 33-byte key, or whose wrapped key is empty, makes the call fail.
C18_NoSilentDropping ==
  /\ (last.op = "buildHeader" /\ last.ok) =>
        RecipientsOf(last.val) = last.arg.recipients
  /\ (last.op = "buildHeader"
        /\ \E r \in 1..Len(last.arg.recipients) :
              \/ ~validatePublicKey(last.arg.recipients[r])
              \/ last.arg.encryptedKeys[r] = <<>>) => ~last.ok
  /\ (last.op = "encrypt" /\ last.ok) => RecipientsOf(last.val) = last.arg

\* ---------------------------------------------------------------------- C19
\* the leading varint of buf is larger than the number of bytes after it
OverLong(buf) ==
  LET hl == readVarIntNum(buf, 0)
  IN ~hl.threw /\ hl.val # Undef /\ hl.val > Len(buf) - hl.pos

\* C19 (over-long header length): on a buffer whose leading header length is
\* larger than what follows it, parseHeader fails, and decrypt,
\* addParticipant and removeParticipant fail on the parse error, before any
\* wrap or unwrap, returning neither message nor header.
C19_OverLongHeader ==
  /\ (last.op = "decrypt" /\ OverLong(last.before \o body)) =>
        ~last.ok /\ last.val = <<>> /\ last.err = "Decryption failed: " \o ParseError
  /\ (last.op \in {"add", "remove"} /\ OverLong(last.before)) =>
        ~last.ok /\ last.val = <<>> /\ last.cause = ParseError /\ header = last.before
  /\ Untampered =>
        \A n \in 1..(Len(header) - 1) :
           OverLong(SubSeq(header, 1, n)) /\ ~parseHeader(SubSeq(header, 1, n)).ok

\* a recipient called addParticipant on a header cut short
C19_Witness ==
  /\ last.op = "add"
  /\ OverLong(last.before)
  /\ last.by \in SentTo
  /\ last.arg \notin {sent.recipients[r] : r \in 1..Len(sent.recipients)}
  /\ last.cause = ParseError

\* ---------------------------------------------------------------------- C20
\* the header is a proper prefix of the content of encrypt's header, with a
\* length prefix that fits it
Shortened ==
  /\ header # <<>> /\ sent # NothingSent
  /\ \E n \in 0..(Len(ContentOf(Original.header)) - 1) :
        header = writeVarIntNum(n) \o SubSeq(ContentOf(Original.header), 1, n)

\* C20 (fail-closed decoding): when the header ends before all its entries
\* and administrators have been read in full, parseHeader fails as a whole,
\* and decrypt reports a malformed header, not recipient-not-found.
C20_FailClosed ==
  Shortened =>
     /\ ~parseHeader(header \o body).ok
     /\ (last.op = "decrypt" /\ last.before = header) =>
           last.err = "Decryption failed: " \o ParseError

\* ---------------------------------------------------------------------- C23
\* the (recipient, wrap-counterparty, wrapped key) triples of h's entries
Triples(h) ==
  [e \in 1..Len(EntriesOf(h)) |->
     <<EntriesOf(h)[e].recipient, EntriesOf(h)[e].sender, EntriesOf(h)[e].key>>]

\* C23 (retained entries are preserved): for every well-formed header, one
\* whose entries name different wrap-counterparties included, the header
\* removeParticipant(target) returns has exactly the input entries whose
\* recipient is not target, in order and each with its (recipient,
\* wrap-counterparty, wrapped key) triple; the header addParticipant returns
\* has the input entries unchanged, in order, followed by one new entry.
C23_RetainedEntries ==
  /\ (last.op = "remove" /\ last.ok) =>
        Triples(last.val) = SelectSeq(Triples(last.before),
                                      LAMBDA t : t[1] # FromHex(last.arg))
  /\ (last.op = "add" /\ last.ok) =>
        /\ Len(Triples(last.val)) = Len(Triples(last.before)) + 1
        /\ SubSeq(Triples(last.val), 1, Len(Triples(last.before))) = Triples(last.before)

\* ---------------------------------------------------------------------- C28
\* C28 (decoded headers are structurally valid): whenever parseHeader
\* succeeds on a buffer, the header it decoded has a version of at least 1
\* and at least one recipient entry, and the administrators list it returns
\* is not empty.
C28_DecodedValid ==
  header # <<>> =>
     LET p == parseHeader(header \o body)
         ver == readUInt32LE(p.header, 0)
         nr == readVarIntNum(p.header, ver.pos)
     IN p.ok =>
          /\ ver.val # ZeroWord
          /\ parsedRecipients(p.header, nr.pos, 0, nr.val) >= 1
          /\ Len(p.administrators) >= 1

\* ---------------------------------------------------------------------- C29
\* the four bytes of the version h stores, least significant first
VersionWord(h) == SubSeq(h, ContentStart(h) + 1, ContentStart(h) + 4)

\* a < b for two such words, as unsigned numbers
WordLess(a, b) ==
  \E k \in 1..4 : a[k] < b[k] /\ \A m \in (k + 1)..4 : a[m] = b[m]

\* C29 (version counter within the 4-byte field): for every version v the
\* field can hold, 0xFFFFFFFF included, the header a successful
\* addParticipant or removeParticipant emits stores a version greater than
\* v, never 0 or a smaller one, and can be parsed again.
C29_VersionInField ==
  (last.op \in {"add", "remove"} /\ last.ok) =>
     /\ WordLess(VersionWord(last.before), VersionWord(last.val))
     /\ parseHeader(last.val).ok

\* ==================================================== encrypt, step by step
\* A third specification: encrypt calls with what happens while they wait.
\* The wraps of a call settle in any order; the caller, who still holds the
\* two arrays it passed, appends to one of them; a second call with the same
\* arguments is made while the first is in progress.
WorkerPool == 1       \* size of the pool the wrap calls are said to go through
MaxCalls == 2         \* calls in progress at once

\* 66 characters that are no hexadecimal digits
NonHexKey == [k \in 1..KeyHexLen |-> 122]

StepRecipientLists == SeqsUpTo({PubKeyHex(2), PubKeyHex(3), ShortKey}, MaxRecipients)
StepAdministratorLists ==
  SeqsUpTo({PubKeyHex(Creator), PubKeyHex(2), ShortKey, NonHexKey}, MaxAdministrators)

\* While encrypt call c is in progress its caller calls encrypt once more,
\* with arrays of its own that hold what it gave to call c;
\* SymmetricKey.fromRandom() returns key k.
EncryptMeanwhile(c, k) ==
  /\ c \in 1..Len(calls)
  /\ calls[c].op = "encrypt"
  /\ k # calls[c].key
  /\ Encrypt(calls[c].by, k, calls[c].message, calls[c].ctx, calls[c].arg,
             calls[c].hasAdministrators, calls[c].given)

StepNext ==
  \/ \E recipients \in StepRecipientLists,
        hasAdministrators \in BOOLEAN, administrators \in StepAdministratorLists :
       /\ (~hasAdministrators => administrators = <<>>)
       /\ Idle /\ header = <<>>
       /\ Encrypt(Creator, FreshKey, WireMessage, SentContext, recipients,
                  hasAdministrators, administrators)
  \/ \E c \in 1..Len(calls), k \in 1..NumKeys :
       Len(calls) < MaxCalls /\ last = NoCall /\ EncryptMeanwhile(c, k)
  \/ \E c \in 1..Len(calls), toRecipients \in BOOLEAN :
       /\ \A d \in 1..Len(calls) : ~calls[d].touched
       /\ Push(c, toRecipients, PubKeyHex(Creator))
  \/ \E c \in 1..Len(calls) : GotPublicKey(c)
  \/ \E c \in 1..Len(calls), r \in 1..(MaxRecipients + 1) : Wrapped(c, r)
  \/ \E c \in 1..Len(calls) : Finish(c)
  \/ Return

StepSpec == Init /\ [][StepNext]_vars

\* an encrypt call that has returned or thrown
IsEncrypt(call) == call.op \in {"encrypt", "encrypt again"}

\* ---------------------------------------------------------------------- C25
\* C25 (entry order under concurrent wraps): whatever order the wrap calls
\* of one encrypt settle in, entry r of the returned header is for
\* recipient r of the list encrypt was given and carries the key wrapped by
\* the call made for that recipient (the caller leaving its arrays alone
\* while the call is in progress).
C25_EntryOrder ==
  (IsEncrypt(last) /\ last.ok /\ ~last.touched) =>
     /\ Len(EntriesOf(last.returned.header)) = Len(last.arg)
     /\ \A r \in 1..Len(last.arg) :
          /\ EntriesOf(last.returned.header)[r].recipient = FromHex(last.arg[r])
          /\ EntriesOf(last.returned.header)[r].key =
                WalletEncrypt(last.by, last.ctx, last.arg[r], toArray(last.key)).val

\* the wrap for the second of two different recipients settled first
C25_Witness ==
  /\ last.op = "encrypt" /\ last.ok /\ ~last.touched
  /\ Len(last.arg) = 2 /\ last.arg[1] # last.arg[2]
  /\ last.order = <<2, 1>>
  /\ header = last.val

\* ---------------------------------------------------------------------- C26
\* C26 (bounded fan-out): at every moment of an encrypt call, the wrap calls
\* issued to the wallet and not yet settled are at most as many as a worker
\* pool of fixed size, however many recipients there are.
C26_BoundedFanOut ==
  \A c \in 1..Len(calls) :
     calls[c].op = "encrypt" => Cardinality(calls[c].pending) <= WorkerPool

\* ---------------------------------------------------------------------- C27
\* C27 (no operation modifies its arguments): after encrypt has returned or
\* failed, the recipients list and the administrators list the caller
\* supplied hold the values they held before the call (the caller leaving
\* its arrays alone while the call is in progress).
C27_ArgumentsUnmodified ==
  (IsEncrypt(last) /\ ~last.touched) =>
     /\ last.recipients = last.arg
     /\ last.hasAdministrators => last.administrators = last.given

\* ---------------------------------------------------------------------- C30
\* a string buildHeader's validatePublicKey refuses is among the recipients
\* or the administrators the call was given
MalformedIdentity(call) ==
  \/ \E r \in 1..Len(call.arg) : ~validatePublicKey(call.arg[r])
  \/ \E a \in 1..Len(call.given) : ~validatePublicKey(call.given[a])

\* C30 (validation precedes wrapping): an encrypt call with a malformed
\* recipient or administrator identity fails without ever calling the
\* wallet's wrap.
C30_ValidationFirst ==
  /\ \A c \in 1..Len(calls) :
        (calls[c].op = "encrypt" /\ MalformedIdentity(calls[c])) => calls[c].wrapCalls = 0
  /\ (IsEncrypt(last) /\ MalformedIdentity(last)) => last.wrapCalls = 0 /\ ~last.ok

\* ===================================================== the life of a group
\* A fourth specification: one envelope through up to MaxMutations
\* mutations handed on, the members calling decrypt, addParticipant and
\* removeParticipant in the sending context on the header at hand, up to
\* MaxCalls calls in progress at once, all of them given the same header.
MaxMutations == 3

GroupNext ==
  \/ \E r \in Ids :
       /\ Idle /\ header = <<>>
       /\ Encrypt(Creator, FreshKey, WireMessage, SentContext, <<PubKeyHex(r)>>, FALSE, <<>>)
  \/ \E i \in Ids, newParticipant \in KeyStrings :
       /\ Len(calls) < MaxCalls /\ last = NoCall
       /\ \A c \in 1..Len(calls) : calls[c].before = header
       /\ AddParticipant(i, sent.ctx, newParticipant)
  \/ \E i \in Ids, targetParticipant \in KeyStrings :
       /\ Len(calls) < MaxCalls /\ last = NoCall
       /\ \A c \in 1..Len(calls) : calls[c].before = header
       /\ RemoveParticipant(i, targetParticipant)
  \/ \E i \in Ids :
       /\ Len(calls) < MaxCalls /\ last = NoCall
       /\ \A c \in 1..Len(calls) : calls[c].before = header
       /\ Decrypt(i, sent.ctx)
  \/ \E c \in 1..Len(calls) : GotPublicKey(c)
  \/ \E c \in 1..Len(calls), r \in 1..MaxRecipients : Wrapped(c, r)
  \/ \E c \in 1..Len(calls) : Finish(c)
  \/ \E c \in 1..Len(calls) : Settle(c, calls[c].depth < MaxMutations)
  \/ Return

GroupSpec == Init /\ [][GroupNext]_vars

\* ---------------------------------------------------------------------- C21
\* C21 (only members can add): addParticipant called by an identity that has
\* no entry in the header fails and returns no header, for every
\* newParticipant, one that is already present included.
C21_OnlyMembersAdd ==
  (last.op = "add" /\ ~HasEntry(last.before, last.by)) => ~last.ok /\ last.val = <<>>

====
